---- MODULE Spec2Model ----
(***************************************************************************)
(* Football match data pipeline: the Airflow DAG football_data_etl         *)
(* (extract_match_data >> validate_data) and the Streamlit dashboard that  *)
(* reads the file the DAG writes.                                          *)
(*                                                                         *)
(* A data frame is a record [cols, rows]: cols is the set of column names  *)
(* and rows a sequence of functions from cols to cell values.  Every cell  *)
(* is a string; a missing value is NaN.  A CSV file is a record            *)
(* [cols, rows] too, whose cells are the text to_csv writes: a missing     *)
(* value is the empty field.                                               *)
(***************************************************************************)
EXTENDS Integers, Sequences, FiniteSets, TLC

VARIABLES
    run,          \* number of the scheduled DAG run (0: none started yet)
    run_state,    \* "none" | "running" | "success" | "failed"
    ex_state,     \* task instance state of extract_match_data
    ex_try,       \* try number of extract_match_data in this run
    va_state,     \* task instance state of validate_data
    va_try,       \* try number of validate_data in this run
    pc,           \* position inside extract_match_data
    i,            \* index of the league the for loop is at
    all_matches,  \* the list of fetched, tagged frames
    combined,     \* pd.concat(all_matches), or NoFrame
    wpos,         \* rows of combined to_csv has flushed (-1: not even the header)
    ret,          \* return value of the last finished invocation, or NoRet
    file,         \* content of RAW_DATA_PATH, or NoFile
    clock,        \* datetime.now(), one tick per invocation
    fetched,      \* history: outcome of each fetch of the current invocation
    attempted,    \* history: the leagues requested by the current invocation, in order
    file0,        \* history: content of RAW_DATA_PATH when the invocation began
    last_rows,    \* history: frames accumulated by the last invocation that fetched any
    va_result,    \* outcome of the last call of validate_data in this run
    dbt_cache,    \* st.cache_data entry of load_dbt_models
    df_cache,     \* st.cache_data entry of load_raw_data
    read_obs,     \* history: what the last read of load_raw_data met on disk
    view          \* what the last script run of the dashboard rendered

pipe_vars == <<run, run_state, ex_state, ex_try, va_state, va_try, pc, i,
               all_matches, combined, wpos, ret, file, clock, fetched, attempted,
               file0, last_rows, va_result>>
dash_vars == <<dbt_cache, df_cache, read_obs, view>>
vars == <<pipe_vars, dash_vars>>

(***************************************************************************)
(* Bounds.                                                                 *)
(***************************************************************************)
MaxRuns == 2      \* scheduled DAG runs explored
MaxRows == 2      \* rows of the largest upstream table

(***************************************************************************)
(* Program constants.                                                      *)
(***************************************************************************)
retries == 1

LeagueCodes == <<"E0", "E1", "D1", "SP1", "I1", "F1">>

LEAGUES ==
    [c \in {"E0", "E1", "D1", "SP1", "I1", "F1"} |->
        CASE c = "E0"  -> "Premier League"
          [] c = "E1"  -> "Championship"
          [] c = "D1"  -> "Bundesliga"
          [] c = "SP1" -> "La Liga"
          [] c = "I1"  -> "Serie A"
          [] c = "F1"  -> "Ligue 1"]

NumLeagues == Len(LeagueCodes)

NaN     == "NaN"
NoFile  == [cols |-> {"<absent>"}, rows |-> <<>>]
NoFrame == [cols |-> {"<none>"}, rows |-> <<>>]
NoRet   == 0 - 1     \* no value returned yet
ZeroBytes == [cols |-> {}, rows |-> <<>>]

ProviderCols == {"HomeTeam", "AwayTeam", "Date", "FTHG", "FTAG", "FTR"}

(***************************************************************************)
(* The provider's tables.  What football-data.co.uk serves is outside the  *)
(* program; each league serves one table here, and the tables differ in    *)
(* shape so that every case of validate_data is met by some set of         *)
(* leagues that answer.                                                    *)
(***************************************************************************)
ResultOf(k) == CASE k % 3 = 1 -> "H" [] k % 3 = 2 -> "D" [] OTHER -> "A"
HomeGoals(k) == CASE k % 3 = 1 -> "2" [] k % 3 = 2 -> "1" [] OTHER -> "0"
AwayGoals(k) == CASE k % 3 = 1 -> "1" [] k % 3 = 2 -> "1" [] OTHER -> "2"

MatchRow(home, away, k) ==
    [HomeTeam |-> home, AwayTeam |-> away, Date |-> "0" \o ToString(k) \o "/08/2025",
     FTHG |-> HomeGoals(k), FTAG |-> AwayGoals(k), FTR |-> ResultOf(k)]

Project(r, cs) == [c \in cs |-> r[c]]

Frame(cs, rs) == [cols |-> cs, rows |-> [k \in 1..Len(rs) |-> Project(rs[k], cs)]]

Upstream(code) ==
    CASE code = "E0" ->
            Frame(ProviderCols,
                  [k \in 1..MaxRows |->
                      IF k % 2 = 1 THEN MatchRow("Arsenal", "Chelsea", k)
                                   ELSE MatchRow("Chelsea", "Arsenal", k)])
      [] code = "E1" ->
            Frame(ProviderCols \ {"HomeTeam"}, <<MatchRow("Leeds", "Stoke", 1)>>)
      [] code = "D1" ->
            Frame(ProviderCols \ {"AwayTeam"}, <<MatchRow("Bayern", "Dortmund", 2)>>)
      [] code = "SP1" ->
            Frame(ProviderCols, <<MatchRow(NaN, "Sevilla", 3)>>)
      [] code = "I1" ->
            Frame(ProviderCols, <<>>)
      [] code = "F1" ->
            Frame(ProviderCols \ {"Date"}, <<MatchRow("Lyon", NaN, 1)>>)

(***************************************************************************)
(* pandas operations used by the DAG.                                      *)
(***************************************************************************)
\* df[col] = value: the column is added (or overwritten) in every row
SetColumn(df, col, value) ==
    [cols |-> df.cols \cup {col},
     rows |-> [k \in 1..Len(df.rows) |->
                 [c \in df.cols \cup {col} |->
                     IF c = col THEN value ELSE df.rows[k][c]]]]

\* a row widened to the columns cs, NaN where the row has no such column
Widen(r, cs) == [c \in cs |-> IF c \in DOMAIN r THEN r[c] ELSE NaN]

RECURSIVE UnionCols(_)
UnionCols(dfs) ==
    IF dfs = <<>> THEN {} ELSE Head(dfs).cols \cup UnionCols(Tail(dfs))

RECURSIVE AppendRows(_, _)
AppendRows(dfs, cs) ==
    IF dfs = <<>> THEN <<>>
    ELSE [k \in 1..Len(Head(dfs).rows) |-> Widen(Head(dfs).rows[k], cs)]
         \o AppendRows(Tail(dfs), cs)

\* pd.concat(dfs, ignore_index=True): column union, rows appended in order
Concat(dfs) == [cols |-> UnionCols(dfs), rows |-> AppendRows(dfs, UnionCols(dfs))]

\* DataFrame.to_csv(index=False): a missing value is written as the empty field
CsvCell(v) == IF v = NaN THEN "" ELSE v
ToCsv(df) ==
    [cols |-> df.cols,
     rows |-> [k \in 1..Len(df.rows) |-> [c \in df.cols |-> CsvCell(df.rows[k][c])]]]

\* pd.read_csv: the empty field and the NA spellings are read as missing, and
\* so is a field a short line does not have
NaValues == {"", "NaN", "NA", "N/A", "null", "nan"}
ParseCell(s) == IF s \in NaValues THEN NaN ELSE s
ReadCsv(f) ==
    [cols |-> f.cols,
     rows |-> [k \in 1..Len(f.rows) |->
                 [c \in f.cols |->
                     IF c \in DOMAIN f.rows[k] THEN ParseCell(f.rows[k][c]) ELSE NaN]]]

\* Series.notna().all()
NotnaAll(df, col) == \A k \in 1..Len(df.rows) : df.rows[k][col] # NaN

(***************************************************************************)
(* validate_data.                                                          *)
(***************************************************************************)
CheckNames == <<"row_count", "has_home_team", "has_away_team", "has_date", "no_null_teams">>
CheckSet == {CheckNames[k] : k \in 1..Len(CheckNames)}

NotRun == [exc |-> "not run", msg |-> "", evaluated |-> {}, failed |-> <<>>,
           checks |-> [n \in CheckSet |-> FALSE]]

\* the value of the entry 'no_null_teams': "True", "False", or "KeyError"
\* when a subscript df[...] names a column the frame does not have;
\* `and` evaluates its right operand only when the left one is true
NoNullTeams(df) ==
    IF "HomeTeam" \notin df.cols THEN "KeyError"
    ELSE IF ~NotnaAll(df, "HomeTeam") THEN "False"
    ELSE IF "AwayTeam" \notin df.cols THEN "KeyError"
    ELSE IF NotnaAll(df, "AwayTeam") THEN "True" ELSE "False"

Checks(df) ==
    [n \in CheckSet |->
        CASE n = "row_count"     -> Len(df.rows) > 0
          [] n = "has_home_team" -> "HomeTeam" \in df.cols
          [] n = "has_away_team" -> "AwayTeam" \in df.cols
          [] n = "has_date"      -> "Date" \in df.cols
          [] n = "no_null_teams" -> NoNullTeams(df) = "True"]

\* only the first failed check reported
FailedFirst(checks) ==
    LET keep(n) == ~checks[n]
        all == SelectSeq(CheckNames, keep)
    IN IF all = <<>> THEN <<>> ELSE <<Head(all)>>

\* [k for k, v in checks.items() if not v]
Failed(checks) ==
    LET keep(n) == ~checks[n] IN SelectSeq(CheckNames, keep)

\* the existence test left out
FileExistsAlways(f) == TRUE

\* os.path.exists(RAW_DATA_PATH)
FileExists(f) == f # NoFile

validate_data(f) ==
    IF ~FileExists(f)
    THEN [NotRun EXCEPT !.exc = "ValueError", !.msg = "Raw data file not found"]
    ELSE IF f = ZeroBytes
    THEN [NotRun EXCEPT !.exc = "EmptyDataError"]
    ELSE LET df == ReadCsv(f) IN
         IF NoNullTeams(df) = "KeyError"
         THEN [NotRun EXCEPT !.exc = "KeyError", !.evaluated = CheckSet \ {"no_null_teams"}]
         ELSE IF Failed(Checks(df)) # <<>>
         THEN [NotRun EXCEPT !.exc = "ValueError", !.msg = "Data quality checks failed",
                             !.evaluated = CheckSet, !.failed = Failed(Checks(df))]
         ELSE [NotRun EXCEPT !.exc = "none", !.evaluated = CheckSet, !.checks = Checks(df)]

(***************************************************************************)
(* extract_match_data, one step per fetch and per flush of to_csv.         *)
(***************************************************************************)
\* the tags with name and code exchanged
TaggedSwapped(df, code, now) ==
    SetColumn(SetColumn(SetColumn(df, "league", code),
                        "league_code", LEAGUES[code]),
              "extracted_at", "t" \o ToString(now))

\* lines 39-41: the three columns added to a fetched frame
Tagged(df, code, now) ==
    SetColumn(SetColumn(SetColumn(df, "league", LEAGUES[code]),
                        "league_code", code),
              "extracted_at", "t" \o ToString(now))

\* the file opened with mode 'a': what it held stays
OpenForAppend(old) == IF old = NoFile THEN ZeroBytes ELSE old

\* open(RAW_DATA_PATH, 'w'): the file exists and is empty, whatever it held
OpenForWrite(old) == ZeroBytes

\* the file f once to_csv, having flushed from rows of df so far (-1: not even
\* the header), has flushed the header and the rows up to the k-th
Flushed(f, df, from, k) ==
    [cols |-> IF from < 0 THEN ToCsv(df).cols ELSE f.cols,
     rows |-> f.rows \o SubSeq(ToCsv(df).rows, (IF from < 0 THEN 0 ELSE from) + 1, k)]

\* the save taken whatever was fetched
HasMatchesAlways(ms) == TRUE

\* `if all_matches:`
HasMatches(ms) == ms # <<>>

\* a scheduler that retries without end
AfterFailureAlways(try) == "up_for_retry"

\* the state of a task instance whose callable raised on try number try
AfterFailure(try) == IF try <= retries THEN "up_for_retry" ELSE "failed"

\* no dependency between the two tasks
UpstreamIgnored == TRUE

\* extract_task >> validate_task, trigger rule all_success
UpstreamDone == ex_state = "success"

TriggerRun ==
    /\ run < MaxRuns
    /\ run_state \in {"none", "success", "failed"}
    /\ run' = run + 1
    /\ run_state' = "running"
    /\ ex_state' = "none" /\ ex_try' = 0
    /\ va_state' = "none" /\ va_try' = 0
    /\ va_result' = NotRun
    /\ pc' = "idle"
    /\ UNCHANGED <<i, all_matches, combined, wpos, ret, file, clock, fetched, attempted,
                   file0, last_rows, dash_vars>>

ExtractStart ==
    /\ run_state = "running"
    /\ ex_state \in {"none", "up_for_retry"}
    /\ ex_state' = "running"
    /\ ex_try' = ex_try + 1
    /\ pc' = "fetch"
    /\ i' = 1
    /\ all_matches' = <<>>
    /\ combined' = NoFrame
    /\ wpos' = -1
    /\ ret' = NoRet
    /\ clock' = clock + 1
    /\ fetched' = [c \in DOMAIN LEAGUES |-> "pending"]
    /\ attempted' = <<>>
    /\ file0' = file
    /\ UNCHANGED <<run, run_state, va_state, va_try, file, last_rows, va_result,
                   dash_vars>>

\* one pass of the for loop: the fetch succeeds or raises inside the try
ExtractFetch(reachable) ==
    /\ pc = "fetch"
    /\ i <= NumLeagues
    /\ \E ok \in BOOLEAN :
          /\ ok => LeagueCodes[i] \in reachable
          /\ all_matches' =
                IF ok THEN Append(all_matches,
                                  Tagged(Upstream(LeagueCodes[i]), LeagueCodes[i], clock))
                      ELSE all_matches
          /\ fetched' = [fetched EXCEPT ![LeagueCodes[i]] = IF ok THEN "ok" ELSE "failed"]
    /\ attempted' = Append(attempted, LeagueCodes[i])
    /\ i' = i + 1
    /\ UNCHANGED <<run, run_state, ex_state, ex_try, va_state, va_try, pc, combined,
                   wpos, ret, file, clock, file0, last_rows, va_result, dash_vars>>

\* lines 47, 54: nothing was fetched
ExtractReturnZero ==
    /\ pc = "fetch"
    /\ i > NumLeagues
    /\ ~HasMatches(all_matches)
    /\ ret' = 0
    /\ pc' = "done"
    /\ ex_state' = "success"
    /\ UNCHANGED <<run, run_state, ex_try, va_state, va_try, i, all_matches, combined,
                   wpos, file, clock, fetched, attempted, file0, last_rows, va_result, dash_vars>>

\* lines 48-51 up to the opening of the file by to_csv
ExtractOpen ==
    /\ pc = "fetch"
    /\ i > NumLeagues
    /\ HasMatches(all_matches)
    /\ combined' = Concat(all_matches)
    /\ last_rows' = all_matches
    /\ file' = OpenForWrite(file)
    /\ wpos' = -1
    /\ pc' = "write"
    /\ UNCHANGED <<run, run_state, ex_state, ex_try, va_state, va_try, i, all_matches,
                   ret, clock, fetched, attempted, file0, va_result, dash_vars>>

\* to_csv flushes its buffer: the header and some more rows reach the disk
ToCsvFlush ==
    /\ pc = "write"
    /\ \E k \in 0..Len(combined.rows) :
          /\ k > wpos
          /\ file' = Flushed(file, combined, wpos, k)
          /\ wpos' = k
    /\ UNCHANGED <<run, run_state, ex_state, ex_try, va_state, va_try, pc, i,
                   all_matches, combined, ret, clock, fetched, attempted, file0, last_rows,
                   va_result, dash_vars>>

\* lines 52-53: to_csv has closed the file
ExtractReturn ==
    /\ pc = "write"
    /\ wpos = Len(combined.rows)
    /\ ret' = Len(combined.rows)
    /\ pc' = "done"
    /\ ex_state' = "success"
    /\ UNCHANGED <<run, run_state, ex_try, va_state, va_try, i, all_matches, combined,
                   wpos, file, clock, fetched, attempted, file0, last_rows, va_result, dash_vars>>

\* lines 50-51 are outside the try: os.makedirs raises OSError
ExtractRaise ==
    /\ pc = "fetch"
    /\ i > NumLeagues
    /\ HasMatches(all_matches)
    /\ last_rows' = all_matches
    /\ pc' = "raised"
    /\ ex_state' = AfterFailure(ex_try)
    /\ UNCHANGED <<run, run_state, ex_try, va_state, va_try, i, all_matches, combined,
                   wpos, ret, file, clock, fetched, attempted, file0, va_result, dash_vars>>

\* the scheduler: a failed upstream task fails the run
UpstreamFailed ==
    /\ run_state = "running"
    /\ ex_state = "failed"
    /\ va_state = "none"
    /\ va_state' = "upstream_failed"
    /\ run_state' = "failed"
    /\ UNCHANGED <<run, ex_state, ex_try, va_try, pc, i, all_matches, combined, wpos,
                   ret, file, clock, fetched, attempted, file0, last_rows, va_result, dash_vars>>

ValidateStart ==
    /\ run_state = "running"
    /\ UpstreamDone
    /\ va_state \in {"none", "up_for_retry"}
    /\ va_state' = "running"
    /\ va_try' = va_try + 1
    /\ UNCHANGED <<run, run_state, ex_state, ex_try, pc, i, all_matches, combined,
                   wpos, ret, file, clock, fetched, attempted, file0, last_rows, va_result,
                   dash_vars>>

ValidateRun ==
    /\ va_state = "running"
    /\ va_result' = validate_data(file)
    /\ va_state' = IF va_result'.exc = "none" THEN "success" ELSE AfterFailure(va_try)
    /\ run_state' = CASE va_state' = "success" -> "success"
                      [] va_state' = "failed"  -> "failed"
                      [] OTHER                 -> run_state
    /\ UNCHANGED <<run, ex_state, ex_try, va_try, pc, i, all_matches, combined, wpos,
                   ret, file, clock, fetched, attempted, file0, last_rows, dash_vars>>

(***************************************************************************)
(* The dashboard: one script run of app.py from top to bottom.             *)
(***************************************************************************)
EmptyFrame == [cols |-> {}, rows |-> <<>>]      \* pd.DataFrame()

Num(s) ==
    CASE s = "0" -> 0 [] s = "1" -> 1 [] s = "2" -> 2 [] s = "3" -> 3 [] s = "4" -> 4
      [] s = "5" -> 5 [] s = "6" -> 6 [] s = "7" -> 7 [] s = "8" -> 8 [] s = "9" -> 9

\* df['FTHG'] + df['FTAG'], cell by cell
AddCells(a, b) == IF a = NaN \/ b = NaN THEN NaN ELSE ToString(Num(a) + Num(b))

\* df['Date'].dt.to_period('M') and ('W') as strings; the provider's dates
\* all lie in the first nine days of August 2025
MonthOf(d) == IF d = NaN THEN "NaT" ELSE "2025-08"
WeekOf(d) ==
    CASE d = NaN -> "NaT"
      [] d \in {"01/08/2025", "02/08/2025", "03/08/2025"} -> "2025-07-28/2025-08-03"
      [] OTHER -> "2025-08-04/2025-08-10"

\* the body of the try: any exception gives the empty frame
load_raw_data(f) ==
    IF \/ f = NoFile
       \/ f = ZeroBytes
       \/ ~({"Date", "FTHG", "FTAG"} \subseteq f.cols)
    THEN EmptyFrame
    ELSE LET df == ReadCsv(f)
             cs == df.cols \cup {"Month", "Week", "TotalGoals"}
         IN [cols |-> cs,
             rows |-> [k \in 1..Len(df.rows) |->
                         [c \in cs |->
                             CASE c = "Month"      -> MonthOf(df.rows[k]["Date"])
                               [] c = "Week"       -> WeekOf(df.rows[k]["Date"])
                               [] c = "TotalGoals" -> AddCells(df.rows[k]["FTHG"],
                                                               df.rows[k]["FTAG"])
                               [] OTHER            -> df.rows[k][c]]]]

\* what a read of RAW_DATA_PATH meets while the extractor may be writing it
Observed(f) ==
    CASE f = NoFile -> "absent"
      [] pc = "write" /\ f # ToCsv(combined) -> "torn"
      [] OTHER -> "complete"

\* DataFrame.empty
IsEmpty(df) == df.cols = {} \/ Len(df.rows) = 0

\* lines 102-106: the values of the team columns the frame has
TeamValues(df) ==
    {df.rows[k][c] : k \in 1..Len(df.rows), c \in {"HomeTeam", "AwayTeam"} \cap df.cols}

\* sorted() of strings mixed with the float nan raises TypeError
SortRaises(values) == NaN \in values /\ values # {NaN}

Elements(q) == {q[k] : k \in 1..Len(q)}

\* sorted() of the league names and of the team names of the provider's tables
SortedLeagueNames ==
    <<"Bundesliga", "Championship", "La Liga", "Ligue 1", "Premier League", "Serie A">>
SortedTeamNames ==
    <<"Arsenal", "Bayern", "Chelsea", "Dortmund", "Leeds", "Lyon", "Sevilla", "Stoke", NaN>>

\* standings_df['league'].unique() and standings_df['team'].unique(): what the
\* dbt models hold is outside the program
StandingsLeagues == Elements(SortedLeagueNames)
StandingsTeams == {"Arsenal", "Chelsea", "Sevilla"}

\* lines 82-85
AvailableLeagues(has_dbt_data, df) ==
    LET names == IF has_dbt_data THEN StandingsLeagues
                 ELSE IF "league" \in df.cols
                      THEN {df.rows[k]["league"] : k \in 1..Len(df.rows)}
                      ELSE {}
        keep(l) == l \in names /\ l # "Championship"
    IN SelectSeq(SortedLeagueNames, keep)

\* line 88
DefaultLeagues(available) ==
    IF Len(available) >= 3 THEN SubSeq(available, 1, 3) ELSE available

\* lines 99-107, when sorted() does not raise
AllTeams(has_dbt_data, df) ==
    LET names == IF has_dbt_data THEN StandingsTeams ELSE TeamValues(df)
        keep(t) == t \in names
    IN SelectSeq(SortedTeamNames, keep)

\* lines 109-110: the preselected option of each selectbox, None without one
NoTeam == "None"
DefaultTeam1(all) == IF Len(all) > 0 THEN all[1] ELSE NoTeam
DefaultTeam2(all) == IF Len(all) > 1 THEN all[2] ELSE NoTeam

\* df[df['league'].isin(leagues)] if leagues and 'league' in df.columns else df
Filtered(df, leagues) ==
    IF leagues # {} /\ "league" \in df.cols
    THEN LET keep(r) == r["league"] \in leagues
         IN [cols |-> df.cols, rows |-> SelectSeq(df.rows, keep)]
    ELSE df

\* Series.sum() of the column col over the rows at the indices in idx: a
\* missing value adds nothing
RECURSIVE SumOver(_, _, _)
SumOver(rows, col, idx) ==
    IF idx = {} THEN 0
    ELSE LET k == CHOOSE x \in idx : TRUE
             v == rows[k][col]
         IN (IF v = NaN THEN 0 ELSE Num(v)) + SumOver(rows, col, idx \ {k})

\* f"{a / b:.2f}" as a number of hundredths, ties to the even neighbour
Hundredths(a, b) ==
    LET q == (100 * a) \div b
        r == (100 * a) % b
    IN IF 2 * r < b THEN q
       ELSE IF 2 * r > b THEN q + 1
       ELSE IF q % 2 = 0 THEN q ELSE q + 1

NanMetric == 0 - 1        \* the metric reads "nan"
NoKpi == [total_matches |-> 0 - 1, avg_goals |-> 0 - 1]

\* the mean taken over the whole frame, the selection left aside
OverviewUnfiltered(df, leagues) ==
    [total_matches |-> Len(Filtered(df, leagues).rows),
     avg_goals |-> IF Len(df.rows) = 0 THEN NanMetric
                   ELSE Hundredths(SumOver(df.rows, "TotalGoals", 1..Len(df.rows)),
                                   Len(df.rows))]

\* lines 123-131: "Total Matches" and "Avg Goals/Match"; Series.mean() leaves
\* the missing values out of the sum and out of the count
Overview(df, leagues) ==
    LET rows == Filtered(df, leagues).rows
        idx == {k \in 1..Len(rows) : rows[k]["TotalGoals"] # NaN}
    IN [total_matches |-> Len(rows),
        avg_goals |-> IF idx = {} THEN NanMetric
                      ELSE Hundredths(SumOver(rows, "TotalGoals", idx), Cardinality(idx))]

\* cell == team_name, which no missing value satisfies
Is(cell, team_name) == cell # NaN /\ cell = team_name

NoStats == [none |-> TRUE, matches |-> 0, goals_for |-> 0, goals_against |-> 0,
            wins |-> 0, draws |-> 0, losses |-> 0, home_goals |-> 0, away_goals |-> 0]

\* the subscripts of get_team_stats that name a column the frame lacks
StatsRaises(team_name, df) ==
    \/ "HomeTeam" \notin df.cols
    \/ "AwayTeam" \notin df.cols
    \/ /\ "FTR" \notin df.cols
       /\ \E k \in 1..Len(df.rows) :
             Is(df.rows[k]["HomeTeam"], team_name) \/ Is(df.rows[k]["AwayTeam"], team_name)

\* the losses counted as the away wins of the opponents only
get_team_stats_home_losses(team_name, df) ==
    LET home == {k \in 1..Len(df.rows) : Is(df.rows[k]["HomeTeam"], team_name)}
        away == {k \in 1..Len(df.rows) : Is(df.rows[k]["AwayTeam"], team_name)}
        won(idx, code) == Cardinality({k \in idx : df.rows[k]["FTR"] = code})
    IN IF Cardinality(home) + Cardinality(away) = 0 THEN NoStats
       ELSE [none |-> FALSE,
             matches |-> Cardinality(home) + Cardinality(away),
             goals_for |-> SumOver(df.rows, "FTHG", home) + SumOver(df.rows, "FTAG", away),
             goals_against |-> SumOver(df.rows, "FTAG", home) + SumOver(df.rows, "FTHG", away),
             wins |-> won(home, "H") + won(away, "A"),
             draws |-> won(home, "D") + won(away, "D"),
             losses |-> won(home, "A"),
             home_goals |-> SumOver(df.rows, "FTHG", home),
             away_goals |-> SumOver(df.rows, "FTAG", away)]

\* lines 407-433, for a frame with the columns the function subscripts
get_team_stats(team_name, df) ==
    LET home == {k \in 1..Len(df.rows) : Is(df.rows[k]["HomeTeam"], team_name)}
        away == {k \in 1..Len(df.rows) : Is(df.rows[k]["AwayTeam"], team_name)}
        total_matches == Cardinality(home) + Cardinality(away)
        won(idx, code) == Cardinality({k \in idx : df.rows[k]["FTR"] = code})
        home_wins == won(home, "H")
        away_wins == won(away, "A")
        draws == won(home, "D") + won(away, "D")
    IN IF total_matches = 0 THEN NoStats
       ELSE [none |-> FALSE,
             matches |-> total_matches,
             goals_for |-> SumOver(df.rows, "FTHG", home) + SumOver(df.rows, "FTAG", away),
             goals_against |-> SumOver(df.rows, "FTAG", home) + SumOver(df.rows, "FTHG", away),
             wins |-> home_wins + away_wins,
             draws |-> draws,
             losses |-> total_matches - home_wins - away_wins - draws,
             home_goals |-> SumOver(df.rows, "FTHG", home),
             away_goals |-> SumOver(df.rows, "FTAG", away)]

NoView == [shown |-> FALSE, dbt |-> "-", has_dbt_data |-> FALSE, has_raw_data |-> FALSE,
           load_warning |-> FALSE, warning |-> FALSE, error |-> "none",
           leagues |-> {}, team1 |-> NoTeam, team2 |-> NoTeam,
           kpi |-> NoKpi, stats1 |-> NoStats, stats2 |-> NoStats,
           tab1 |-> "-", tab2 |-> "-", tab3 |-> "-", tab4 |-> "-", tab5 |-> "-"]

\* the standings drawn without asking whether they were loaded
StandingsPanelUnguarded(has_dbt_data) == "dbt"

\* tab2: the standings of the dbt models, or the notice of line 261
StandingsPanel(has_dbt_data) == IF has_dbt_data THEN "dbt" ELSE "info"

\* tab3: the scorers of the dbt models, or the notice of line 333
ScorersPanel(has_dbt_data) == IF has_dbt_data THEN "dbt" ELSE "info"

\* the warning given as soon as either source is missing
NoDataEither(has_dbt_data, has_raw_data) == ~has_dbt_data \/ ~has_raw_data

\* line 73: `if not has_dbt_data and not has_raw_data`
NoData(has_dbt_data, has_raw_data) == ~has_dbt_data /\ ~has_raw_data

\* line 49: the st.warning of load_dbt_models, shown when read_sql raised
LoadWarning(dbt) == dbt = "unreachable"

\* lines 66-524 for the loaded models dbt, the loaded frame df and the values
\* of the three widgets of the sidebar
Render(dbt, df, leagues, team1, team2) ==
    LET has_dbt_data == dbt = "data"
        has_raw_data == ~IsEmpty(df)
        base == [NoView EXCEPT !.shown = TRUE, !.dbt = dbt,
                               !.load_warning = LoadWarning(dbt),
                               !.has_dbt_data = has_dbt_data,
                               !.has_raw_data = has_raw_data]
    IN IF NoData(has_dbt_data, has_raw_data)
       THEN [base EXCEPT !.warning = TRUE]                         \* lines 73-76
       ELSE IF ~has_dbt_data /\ SortRaises(TeamValues(df))
       THEN [base EXCEPT !.error = "TypeError"]                    \* line 107
       ELSE LET filtered_df == Filtered(df, leagues)
                tabs == [base EXCEPT
                           !.leagues = leagues, !.team1 = team1, !.team2 = team2,
                           !.tab1 = IF has_raw_data THEN "raw" ELSE "dbt",
                           !.kpi = IF has_raw_data THEN Overview(df, leagues) ELSE NoKpi,
                           !.tab2 = StandingsPanel(has_dbt_data),
                           !.tab3 = ScorersPanel(has_dbt_data),
                           !.tab4 = IF has_raw_data THEN "raw" ELSE "info"]
            IN IF team1 # NoTeam /\ team2 # NoTeam /\ has_raw_data
               THEN IF StatsRaises(team1, filtered_df) \/ StatsRaises(team2, filtered_df)
                    THEN [tabs EXCEPT !.error = "KeyError"]        \* lines 408-422
                    ELSE [tabs EXCEPT !.tab5 = "raw",
                                      !.stats1 = get_team_stats(team1, filtered_df),
                                      !.stats2 = get_team_stats(team2, filtered_df)]
               ELSE [tabs EXCEPT !.tab5 = "info"]

\* the values the multiselect can hold: its default, or what a user left in
\* it who cleared it or kept a single league
LeagueChoices(available, user) ==
    {Elements(DefaultLeagues(available))}
        \cup (IF user THEN {{}} \cup {{l} : l \in Elements(available)} ELSE {})

\* the values the two selectboxes can hold
TeamChoices(all, user) ==
    {<<DefaultTeam1(all), DefaultTeam2(all)>>}
        \cup (IF user THEN Elements(all) \X Elements(all) ELSE {})

\* the outcomes of load_dbt_models: (None, None, None), three tables of which
\* standings has no row, three tables with rows
DbtOutcomes == {"unreachable", "empty", "data"}

\* a script run; each loader returns its cache entry when it has one, and the
\* widgets hold their defaults unless the user has changed them
ScriptRun(user) ==
    \E outcome \in DbtOutcomes :
        /\ dbt_cache # "miss" => outcome = dbt_cache
        /\ dbt_cache' = outcome
        /\ df_cache' = IF df_cache = NoFrame THEN load_raw_data(file) ELSE df_cache
        /\ read_obs' = IF df_cache = NoFrame THEN Observed(file) ELSE read_obs
        /\ LET has_dbt_data == outcome = "data"
               crashed == ~has_dbt_data /\ SortRaises(TeamValues(df_cache'))
               available == AvailableLeagues(has_dbt_data, df_cache')
               all_teams == IF crashed THEN <<>> ELSE AllTeams(has_dbt_data, df_cache')
           IN \E leagues \in LeagueChoices(available, user) :
                 \E teams \in TeamChoices(all_teams, user) :
                    view' = Render(outcome, df_cache', leagues, teams[1], teams[2])
        /\ UNCHANGED pipe_vars

\* ttl=3600 has passed: both entries, made in the same script run, are dropped
CacheExpire ==
    /\ dbt_cache # "miss"
    /\ dbt_cache' = "miss"
    /\ df_cache' = NoFrame
    /\ UNCHANGED <<read_obs, view, pipe_vars>>

(***************************************************************************)
(* Specifications.                                                         *)
(***************************************************************************)

Init ==
    /\ run = 0 /\ run_state = "none"
    /\ ex_state = "none" /\ ex_try = 0
    /\ va_state = "none" /\ va_try = 0
    /\ pc = "idle" /\ i = 1
    /\ all_matches = <<>> /\ combined = NoFrame /\ wpos = -1 /\ ret = NoRet
    /\ file = NoFile
    /\ clock = 0
    /\ fetched = [c \in DOMAIN LEAGUES |-> "pending"]
    /\ attempted = <<>>
    /\ file0 = NoFile
    /\ last_rows = <<>>
    /\ va_result = NotRun
    /\ dbt_cache = "miss"
    /\ df_cache = NoFrame
    /\ read_obs = "none"
    /\ view = NoView

\* the DAG with a file system that does not fail
Next ==
    \/ TriggerRun
    \/ ExtractStart
    \/ ExtractFetch(DOMAIN LEAGUES)
    \/ ExtractReturnZero
    \/ ExtractOpen
    \/ ToCsvFlush
    \/ ExtractReturn
    \/ ValidateStart
    \/ ValidateRun

Spec == Init /\ [][Next]_vars

\* the leagues that answer in the two specifications below; the provider
\* is down for the others
SmallProvider == {"E0", "D1", "SP1", "I1"}

\* the DAG with a data directory that may refuse to be created
NextFault ==
    \/ TriggerRun
    \/ ExtractStart
    \/ ExtractFetch(SmallProvider)
    \/ ExtractReturnZero
    \/ ExtractOpen
    \/ ToCsvFlush
    \/ ExtractReturn
    \/ ExtractRaise
    \/ UpstreamFailed
    \/ ValidateStart
    \/ ValidateRun

SpecFault == Init /\ [][NextFault]_vars

\* the DAG and the dashboard side by side
NextDash ==
    \/ TriggerRun
    \/ ExtractStart
    \/ ExtractFetch(SmallProvider)
    \/ ExtractReturnZero
    \/ ExtractOpen
    \/ ToCsvFlush
    \/ ExtractReturn
    \/ ValidateStart
    \/ ValidateRun
    \/ ScriptRun(FALSE)
    \/ CacheExpire

SpecDash == Init /\ [][NextDash]_vars

\* the files an invocation of extract_match_data leaves, by the leagues that
\* answered
ExtractorFiles ==
    {ToCsv(Concat([k \in 1..Len(SelectSeq(LeagueCodes, LAMBDA c : c \in S)) |->
                      Tagged(Upstream(SelectSeq(LeagueCodes, LAMBDA c : c \in S)[k]),
                             SelectSeq(LeagueCodes, LAMBDA c : c \in S)[k], 1)])) :
        S \in SUBSET (DOMAIN LEAGUES) \ {{}}}

\* the dashboard over any file the DAG can have left, the DAG at rest
InitPanel ==
    /\ run = 0 /\ run_state = "none"
    /\ ex_state = "none" /\ ex_try = 0
    /\ va_state = "none" /\ va_try = 0
    /\ pc = "idle" /\ i = 1
    /\ all_matches = <<>> /\ combined = NoFrame /\ wpos = -1 /\ ret = NoRet
    /\ file \in ExtractorFiles \cup {NoFile}
    /\ clock = 1
    /\ fetched = [c \in DOMAIN LEAGUES |-> "pending"]
    /\ attempted = <<>>
    /\ file0 = NoFile
    /\ last_rows = <<>>
    /\ va_result = NotRun
    /\ dbt_cache = "miss"
    /\ df_cache = NoFrame
    /\ read_obs = "none"
    /\ view = NoView

NextPanel ==
    \/ ScriptRun(TRUE)
    \/ CacheExpire

SpecPanel == InitPanel /\ [][NextPanel]_vars

(***************************************************************************)
(* Vocabulary of the properties.                                           *)
(***************************************************************************)
LeagueSet == DOMAIN LEAGUES
Succeeded == {c \in LeagueSet : fetched[c] = "ok"}
AllAttempted == \A c \in LeagueSet : fetched[c] # "pending"
Returned == pc = "done"

RECURSIVE SumRows(_)
SumRows(cs) ==
    IF cs = {} THEN 0
    ELSE LET c == CHOOSE x \in cs : TRUE
         IN Len(Upstream(c).rows) + SumRows(cs \ {c})

RECURSIVE TotalRows(_)
TotalRows(dfs) ==
    IF dfs = <<>> THEN 0 ELSE Len(Head(dfs).rows) + TotalRows(Tail(dfs))

\* the rows of df tagged with league code c, cut down to the columns cs
RowsOf(df, c, cs) ==
    LET mine(r) == r["league_code"] = c
        sel == SelectSeq(df.rows, mine)
    IN [k \in 1..Len(sel) |-> Project(sel[k], cs)]

SeqToSet(q) == {q[k] : k \in 1..Len(q)}

\* the names of the five predicates that are false of the table df, each
\* taken by itself: a team column that is absent has no value to miss
FalsePredicates(df) ==
    {n \in CheckSet :
        CASE n = "row_count"     -> Len(df.rows) = 0
          [] n = "has_home_team" -> "HomeTeam" \notin df.cols
          [] n = "has_away_team" -> "AwayTeam" \notin df.cols
          [] n = "has_date"      -> "Date" \notin df.cols
          [] n = "no_null_teams" ->
                \E k \in 1..Len(df.rows) :
                   \E c \in {"HomeTeam", "AwayTeam"} \cap df.cols : df.rows[k][c] = NaN}

QualityFailure(r) == r.exc = "ValueError" /\ r.msg = "Data quality checks failed"
Validated == va_result # NotRun
FileHasTable == file # NoFile /\ file # ZeroBytes

(***************************************************************************)
(* C1: when an invocation of extract_match_data in which at least one      *)
(* league was fetched has returned, the file holds, for each league that   *)
(* was fetched, exactly the provider's rows of that league in their order, *)
(* tagged with its code and its name, and no row of any other league; the  *)
(* returned count is the sum of the row counts of the fetched leagues.     *)
(***************************************************************************)
C1_ExactRowsTaggedAndCounted ==
    (Returned /\ Succeeded # {}) =>
        LET df == ReadCsv(file) IN
        /\ {"league", "league_code"} \subseteq df.cols
        /\ \A k \in 1..Len(df.rows) :
              /\ df.rows[k]["league_code"] \in Succeeded
              /\ df.rows[k]["league"] = LEAGUES[df.rows[k]["league_code"]]
        /\ \A c \in LeagueSet :
              RowsOf(df, c, Upstream(c).cols) =
                 IF c \in Succeeded THEN Upstream(c).rows ELSE <<>>
        /\ Len(df.rows) = SumRows(Succeeded)
        /\ ret = SumRows(Succeeded)

C1_Witness ==
    /\ Returned
    /\ fetched["E0"] = "ok" /\ fetched["E1"] = "failed" /\ fetched["D1"] = "ok"
    /\ fetched["SP1"] = "failed" /\ fetched["I1"] = "failed" /\ fetched["F1"] = "failed"
    /\ ret = MaxRows + 1
    /\ Len(file.rows) = MaxRows + 1

(***************************************************************************)
(* C2: when every fetch of an invocation failed, the invocation returns 0  *)
(* without raising and the file is what it was when the invocation began.  *)
(***************************************************************************)
C2_TotalFailureReturnsZeroWritesNothing ==
    (AllAttempted /\ Succeeded = {} /\ pc \notin {"fetch", "idle"}) =>
        /\ pc = "done"
        /\ ex_state = "success"
        /\ ret = 0
        /\ file = file0

C2_Witness ==
    /\ Returned /\ AllAttempted /\ Succeeded = {}
    /\ ret = 0
    /\ file0 # NoFile /\ file = file0

(***************************************************************************)
(* C3: whenever no invocation is in progress, the file holds exactly the   *)
(* rows accumulated by the most recent invocation that fetched a league    *)
(* (and does not exist if there was none): its row count is that of one    *)
(* run, however many runs came before.                                     *)
(***************************************************************************)
C3_OverwriteNeverAppend ==
    (pc \in {"idle", "done"}) =>
        IF last_rows = <<>> THEN file = NoFile
        ELSE /\ file # NoFile
             /\ Len(file.rows) = TotalRows(last_rows)
             /\ ReadCsv(file).rows = AppendRows(last_rows, file.cols)

C3_Witness ==
    /\ Returned /\ run = 2
    /\ file0 # NoFile
    /\ Succeeded = LeagueSet
    /\ Len(file0.rows) = Len(file.rows)
    /\ file # file0

(***************************************************************************)
(* C4: validate_data called when the file does not exist raises the        *)
(* missing-file error and has evaluated no check.                          *)
(***************************************************************************)
C4_MissingFileIsFatal ==
    (Validated /\ file = NoFile) =>
        /\ va_result.exc = "ValueError"
        /\ va_result.msg = "Raw data file not found"
        /\ va_result.evaluated = {}
        /\ va_state \in {"up_for_retry", "running", "failed"}

C4_Witness ==
    /\ file = NoFile
    /\ va_result.msg = "Raw data file not found"
    /\ va_state = "failed" /\ run_state = "failed"

(***************************************************************************)
(* C5: validate_data given a table without the AwayTeam column, or without *)
(* the HomeTeam column, raises the data-quality failure that lists exactly *)
(* the predicates false of the table.                                      *)
(***************************************************************************)
C5_MissingTeamColumnReported ==
    (Validated /\ FileHasTable /\ ~({"HomeTeam", "AwayTeam"} \subseteq file.cols)) =>
        /\ QualityFailure(va_result)
        /\ SeqToSet(va_result.failed) = FalsePredicates(ReadCsv(file))

(***************************************************************************)
(* C6: validate_data given a table with both team columns raises the       *)
(* data-quality failure iff some predicate is false of the table, and then *)
(* lists every false predicate once and no true one; otherwise it returns  *)
(* the mapping with the five predicates true.                              *)
(***************************************************************************)
C6_ReportsEveryFailedCheck ==
    (Validated /\ FileHasTable /\ {"HomeTeam", "AwayTeam"} \subseteq file.cols) =>
        LET bad == FalsePredicates(ReadCsv(file)) IN
        /\ va_result.exc \in {"none", "ValueError"}
        /\ QualityFailure(va_result) <=> bad # {}
        /\ SeqToSet(va_result.failed) = bad
        /\ Len(va_result.failed) = Cardinality(bad)
        /\ bad = {} => /\ va_result.exc = "none"
                       /\ \A n \in CheckSet : va_result.checks[n]

C6_Witness ==
    /\ Validated
    /\ Len(file.rows) = 1
    /\ file.rows[1]["HomeTeam"] = ""
    /\ va_result.failed = <<"no_null_teams">>
    /\ QualityFailure(va_result)

(***************************************************************************)
(* C7: in a run whose extraction fetched no league and returned 0, the     *)
(* validation that follows does not succeed.                               *)
(***************************************************************************)
C7_TotalFailureNeverHealthy ==
    (Returned /\ AllAttempted /\ Succeeded = {} /\ ret = 0) =>
        /\ va_state # "success"
        /\ run_state # "success"

(***************************************************************************)
(* C9: validate_data is started, running or finished only in a run whose   *)
(* extract_match_data has returned, and a run is a success only when       *)
(* validate_data has returned its checks.                                  *)
(***************************************************************************)
C9_ValidateAfterExtract ==
    /\ va_state \in {"running", "success", "failed", "up_for_retry"} =>
          /\ ex_state = "success"
          /\ pc = "done"
    /\ Validated => ex_state = "success"
    /\ run_state = "success" =>
          /\ va_state = "success"
          /\ va_result.exc = "none"
    /\ ex_state = "failed" => va_state \in {"none", "upstream_failed"}

C9_Witness ==
    /\ run_state = "success"
    /\ ex_try = 2
    /\ va_state = "success"

(***************************************************************************)
(* C8: a read of the file by load_raw_data never meets a file that the     *)
(* extractor has truncated or written in part: it meets the file of a      *)
(* finished invocation, or no file when none was ever written.             *)
(***************************************************************************)
C8_AtomicReplace == read_obs # "torn"

C11_WarningWheneverNoFile ==
    (view.shown /\ file = NoFile) =>
        /\ view.warning \/ view.load_warning
        /\ view.error = "none"

\* C11 as amended: such a script run raises no error and finds no raw data;
\* it shows the warning "No data available" exactly when load_dbt_models
\* gave no standings either, and otherwise draws the Overview, the standings
\* and the scorers from the dbt models and puts a notice in the panels that
\* need the raw data.
C11_WarningUnlessStandings ==
    (view.shown /\ file = NoFile) =>
        /\ view.error = "none"
        /\ ~view.has_raw_data
        /\ view.warning <=> ~view.has_dbt_data
        /\ view.has_dbt_data =>
              /\ ~view.load_warning
              /\ view.tab1 = "dbt" /\ view.tab2 = "dbt" /\ view.tab3 = "dbt"
              /\ view.tab4 = "info" /\ view.tab5 = "info"

C11_Witness ==
    /\ view.shown /\ file = NoFile
    /\ view.dbt = "data"
    /\ ~view.warning /\ ~view.load_warning
    /\ view.tab1 = "dbt" /\ view.tab4 = "info"
    /\ run_state = "failed"


\* the goals of the rows of a table at the indices in idx, both sides added up
RECURSIVE GoalsAt(_, _)
GoalsAt(rows, idx) ==
    IF idx = {} THEN 0
    ELSE LET k == CHOOSE x \in idx : TRUE
         IN Num(rows[k]["FTHG"]) + Num(rows[k]["FTAG"]) + GoalsAt(rows, idx \ {k})

\* the rows of the loaded frame that belong to one league
LeagueRows(l) == {k \in 1..Len(df_cache.rows) : df_cache.rows[k]["league"] = l}

\* an Overview drawn from the raw frame that is still cached, one league selected
SingleLeagueOverview(l) ==
    /\ view.shown /\ view.tab1 = "raw"
    /\ df_cache # NoFrame
    /\ view.leagues = {l}

\* C12: with a single league selected, "Total Matches" of the raw Overview is
\* the number of rows of that league and "Avg Goals/Match" is the sum of
\* FTHG + FTAG over those rows divided by their number, shown to two decimals
\* (3.00 when each row is a 2-1); the rows of the other leagues add nothing.
C12_SingleLeagueOverview ==
    \A l \in Elements(SortedLeagueNames) :
        SingleLeagueOverview(l) =>
            LET idx == LeagueRows(l)
                n == Cardinality(idx)
                goals == GoalsAt(df_cache.rows, idx)
                shown == view.kpi.avg_goals
                scored == \A k \in idx : /\ df_cache.rows[k]["FTHG"] # NaN
                                         /\ df_cache.rows[k]["FTAG"] # NaN
                all21 == \A k \in idx : /\ df_cache.rows[k]["FTHG"] = "2"
                                        /\ df_cache.rows[k]["FTAG"] = "1"
            IN /\ view.kpi.total_matches = n
               /\ (n > 0 /\ scored) =>
                     /\ 2 * (100 * goals - shown * n) <= n
                     /\ 2 * (shown * n - 100 * goals) <= n
               /\ (n > 0 /\ all21) => shown = 300

\* a league of 2-1 matches selected alone from a frame that also holds the rows
\* of leagues with other scores
C12_Witness ==
    \E l \in Elements(SortedLeagueNames) :
        /\ SingleLeagueOverview(l)
        /\ LeagueRows(l) # {}
        /\ Cardinality(LeagueRows(l)) < Len(df_cache.rows)
        /\ view.kpi.total_matches = Cardinality(LeagueRows(l))
        /\ view.kpi.avg_goals = 300
        /\ GoalsAt(df_cache.rows, 1..Len(df_cache.rows)) * Cardinality(LeagueRows(l))
               # GoalsAt(df_cache.rows, LeagueRows(l)) * Len(df_cache.rows)

\* an invocation of extract_match_data has entered its loop in this run
Invoked == pc \in {"fetch", "write", "done", "raised"}

\* C13: in one scheduled run each task is executed at most twice (one attempt
\* and the single retry); within an invocation of the extractor each league
\* is requested exactly once, in registry order, whatever failed before it;
\* a retried extraction keeps nothing of the first attempt and requests all
\* six leagues again from the first.
C13_AtMostTwiceEachLeagueOnce ==
    /\ ex_try <= retries + 1
    /\ va_try <= retries + 1
    /\ Invoked =>
          /\ ex_try >= 1
          /\ attempted = SubSeq(LeagueCodes, 1, i - 1)
          /\ pc # "fetch" => attempted = LeagueCodes
          /\ \A c \in LeagueSet : fetched[c] # "pending" <=> c \in Elements(attempted)
          /\ Len(all_matches) = Cardinality(Succeeded)

\* a run that failed after both tasks used their retry: the second
\* extraction requested the six leagues again, some of them in vain
C13_Witness ==
    /\ run_state = "failed"
    /\ ex_try = retries + 1 /\ va_try = retries + 1
    /\ pc = "done"
    /\ attempted = LeagueCodes
    /\ fetched["E0"] = "failed" /\ fetched["D1"] = "ok"

\* the rows of the cached frame that pass the league filter of the view
Passing ==
    {k \in 1..Len(df_cache.rows) :
        view.leagues = {} \/ df_cache.rows[k]["league"] \in view.leagues}

\* the passing rows in which team t is at home, is away, and with result code
AtHome(t) == {k \in Passing : df_cache.rows[k]["HomeTeam"] = t}
Away(t) == {k \in Passing : df_cache.rows[k]["AwayTeam"] = t}
Ended(idx, code) == Cardinality({k \in idx : df_cache.rows[k]["FTR"] = code})

\* the Team Comparison tab has called get_team_stats on the cached frame
Compared == view.shown /\ view.tab5 = "raw" /\ df_cache # NoFrame

\* what get_team_stats has to return for team t
StatsAgree(t, stats) ==
    LET n == Cardinality(AtHome(t) \cup Away(t))
    IN /\ n = 0 => stats.none
       /\ n >= 1 =>
             /\ ~stats.none
             /\ stats.matches = n
             /\ stats.wins + stats.draws + stats.losses = stats.matches
             /\ stats.losses >= 0
             /\ stats.wins = Ended(AtHome(t), "H") + Ended(Away(t), "A")
             /\ stats.draws = Ended(AtHome(t), "D") + Ended(Away(t), "D")
             /\ stats.losses = Ended(AtHome(t), "A") + Ended(Away(t), "H")

\* C14: over a filtered table of fixtures whose FTR is H, D or A,
\* get_team_stats returns for a team with at least one match a record with
\* wins + draws + losses = matches, losses >= 0 and matches the number of
\* rows with the team at home or away, and None for a team without a match.
C14_TeamStatsAddUp ==
    (/\ Compared
     /\ \A k \in Passing : df_cache.rows[k]["FTR"] \in {"H", "D", "A"}) =>
        /\ StatsAgree(view.team1, view.stats1)
        /\ StatsAgree(view.team2, view.stats2)

\* a team that lost a match at home or away, compared with a team whose
\* matches the league filter has taken out
C14_Witness ==
    /\ Compared
    /\ view.leagues # {}
    /\ ~view.stats1.none
    /\ view.stats1.losses >= 1 /\ view.stats1.losses < view.stats1.matches
    /\ Away(view.team1) # {}
    /\ view.stats2.none
    /\ \E k \in 1..Len(df_cache.rows) : df_cache.rows[k]["AwayTeam"] = view.team2
====
